---------------------------- MODULE Spec2Model ----------------------------
(***************************************************************************)
(* A model of the giveaway bot of src/main.py: the winners store, the      *)
(* admin conversation state table, the pending-phone table, the raffle     *)
(* store and the message handlers that act on them.                        *)
(*                                                                         *)
(* Text is modelled as a sequence of one-character strings, so that        *)
(* str.strip, str.startswith, str.splitlines, SQL LOWER() and the phone    *)
(* regular expression are computed character by character.  An optional    *)
(* value (SQL NULL, Python None) is a sequence of length 0 or 1.           *)
(***************************************************************************)
EXTENDS Integers, Sequences, FiniteSets, Bags, TLC

VARIABLES
    winners,              \* table winners: set of rows
    admin_states,         \* dict user_id -> state of the pending admin flow
    pending_phone_users,  \* dict user_id -> handle awaiting a phone
    lotteries,            \* table lotteries: set of rows
    lottery_participants, \* table lottery_participants: set of rows
    admin_config,         \* table admin_config: set of rows
    tasks,                \* bag of the handlers suspended at an await
    ADMIN_IDS,            \* in-memory copy of the admins table
    admins,               \* table admins: set of user ids
    BOT_ACTIVE,           \* the bot on/off flag
    reply,                \* the reply sent by the last handler step
    inp,                  \* input text of the pure-function specifications
    out                   \* result of the pure-function specifications

vars == <<winners, admin_states, pending_phone_users, lotteries,
          lottery_participants, admin_config, tasks, ADMIN_IDS, admins,
          BOT_ACTIVE, reply, inp, out>>

-----------------------------------------------------------------------------
(* Text helpers *)

None == <<>>
Some(x) == <<x>>

\* Characters that str.strip() removes (the model's texts hold these two).
Whitespace == {" ", "\n"}

RECURSIVE LStrip(_)
LStrip(s) ==
    IF s # <<>> /\ Head(s) \in Whitespace THEN LStrip(Tail(s)) ELSE s

RECURSIVE RStrip(_)
RStrip(s) ==
    IF s # <<>> /\ s[Len(s)] \in Whitespace
    THEN RStrip(SubSeq(s, 1, Len(s) - 1))
    ELSE s

\* str.strip()
Strip(s) == RStrip(LStrip(s))

\* str.startswith(c) for a one-character prefix
StartsWith(s, c) == s # <<>> /\ s[1] = c

\* SQL LOWER() / str.lower() on the model's letters
LowerChar(c) ==
    CASE c = "A" -> "a"
      [] c = "B" -> "b"
      [] c = "F" -> "f"
      [] OTHER -> c

Lower(s) == [i \in 1..Len(s) |-> LowerChar(s[i])]

\* str.splitlines(): the pieces between line breaks, a trailing break adds none
RECURSIVE SplitLinesFrom(_, _)
SplitLinesFrom(s, cur) ==
    IF s = <<>> THEN (IF cur = <<>> THEN <<>> ELSE <<cur>>)
    ELSE IF Head(s) = "\n" THEN <<cur>> \o SplitLinesFrom(Tail(s), <<>>)
    ELSE SplitLinesFrom(Tail(s), Append(cur, Head(s)))

SplitLines(s) == SplitLinesFrom(s, <<>>)

\* [f(x) for x in seq if p(x)] for f = strip, p = non-empty after strip
RECURSIVE StrippedNonEmpty(_)
StrippedNonEmpty(lines) ==
    IF lines = <<>> THEN <<>>
    ELSE LET h == Strip(Head(lines))
         IN  (IF h = <<>> THEN <<>> ELSE <<h>>) \o StrippedNonEmpty(Tail(lines))

-----------------------------------------------------------------------------
(* The winners table.  A row is [product_name, handle, phone_number]; the   *)
(* unique index idx_winners_product_handle is on (product_name, handle),    *)
(* compared exactly (TEXT columns, case-sensitive).                         *)

WinnerRow(p, h, ph) == [product_name |-> p, handle |-> h, phone_number |-> ph]

\* if not handle.startswith("@"): handle = "@" + handle
PrefixAt(h) == IF StartsWith(h, "@") THEN h ELSE <<"@">> \o h

\* The value add_winners writes for one element of handles
\* (None: the element is skipped).
StoredHandle(handle) ==
    LET h == Strip(handle)
    IN  IF h = <<>> THEN None ELSE Some(PrefixAt(h))

\* INSERT INTO winners ... ON CONFLICT (product_name, handle) DO NOTHING
InsertWinner(t, p, h) ==
    IF \E r \in t : r.product_name = p /\ r.handle = h
    THEN t
    ELSE t \cup {WinnerRow(p, h, None)}

RECURSIVE add_winners(_, _, _)
add_winners(t, product_name, handles) ==
    IF handles = <<>> THEN t
    ELSE LET sh == StoredHandle(Head(handles))
         IN  add_winners(IF sh = None THEN t
                         ELSE InsertWinner(t, product_name, sh[1]),
                         product_name, Tail(handles))

\* A faulty delete_product_winners: the DELETE without its WHERE clause
delete_product_winners_no_where(t, product_name) == {}

\* DELETE FROM winners WHERE product_name = %s
delete_product_winners(t, product_name) ==
    {r \in t : r.product_name # product_name}

\* One iteration of delete_winners_by_product_and_handles:
\* the rows DELETE ... WHERE product_name = %s AND LOWER(handle) = LOWER(%s) hits
DeleteHits(t, product_name, h) ==
    {r \in t : r.product_name = product_name /\ Lower(r.handle) = Lower(h)}

\* Returns [table, results]; results is the dict raw handle -> rowcount, a
\* later line with the same raw text overwrites the earlier entry.
RECURSIVE delete_winners_by_product_and_handles(_, _, _, _)
delete_winners_by_product_and_handles(t, product_name, handles, results) ==
    IF handles = <<>> THEN [table |-> t, results |-> results]
    ELSE LET raw == Head(handles)
             h == Strip(raw)
         IN  IF h = <<>>
             THEN delete_winners_by_product_and_handles(
                      t, product_name, Tail(handles), results)
             ELSE LET hits == DeleteHits(t, product_name, PrefixAt(h))
                      keep == {e \in results : e.raw # raw}
                  IN  delete_winners_by_product_and_handles(
                          t \ hits, product_name, Tail(handles),
                          keep \cup {[raw |-> raw, count |-> Cardinality(hits)]})

\* UPDATE winners SET phone_number = NULL
clear_all_phones(t) == {[r EXCEPT !.phone_number = None] : r \in t}

\* UPDATE winners SET phone_number = NULL WHERE product_name = %s
clear_product_phones(t, product_name) ==
    {IF r.product_name = product_name
     THEN [r EXCEPT !.phone_number = None] ELSE r : r \in t}

\* A faulty update_phone_for_handle: the UPDATE without its WHERE clause
update_phone_for_handle_no_where(t, handle, phone_number) ==
    {[r EXCEPT !.phone_number = Some(phone_number)] : r \in t}

\* UPDATE winners SET phone_number = %s WHERE LOWER(handle) = LOWER(%s)
update_phone_for_handle(t, handle, phone_number) ==
    LET h == PrefixAt(handle)
    IN  {IF Lower(r.handle) = Lower(h)
         THEN [r EXCEPT !.phone_number = Some(phone_number)] ELSE r : r \in t}

\* Returns [result, table]: result "False" (the pair exists, or no row was
\* updated), "True" (rows updated), or "IntegrityError": the UPDATE makes two
\* rows of one handle collide on the unique index, the statement is rolled
\* back and the exception leaves the function.
change_product_name_for_handle(t, handle, new_product_name) ==
    LET h == PrefixAt(handle)
        rows == {r \in t : Lower(r.handle) = Lower(h)}
    IN  IF \E r \in rows : r.product_name = new_product_name
        THEN [result |-> "False", table |-> t]
        ELSE IF \E r1, r2 \in rows : r1 # r2 /\ r1.handle = r2.handle
        THEN [result |-> "IntegrityError", table |-> t]
        ELSE [result |-> IF rows # {} THEN "True" ELSE "False",
              table |-> (t \ rows) \cup
                        {[r EXCEPT !.product_name = new_product_name] : r \in rows}]

\* The rows SELECT ... WHERE LOWER(handle) = LOWER('@' + username) LIMIT 1 may
\* return (no ORDER BY: any one of them); empty for a user without username.
find_pending_handle_for_user(t, username) ==
    IF username = None THEN {}
    ELSE {r \in t : Lower(r.handle) = Lower(<<"@">> \o username[1])}

-----------------------------------------------------------------------------
(* Phone validation: PHONE_PATTERN.match(text) for the pattern              *)
(* ^01[016789]-\d{3,4}-\d{4}$ of Python's re module on a str.               *)

AsciiDigit == {"0", "1", "2", "3", "4", "5", "6", "7", "8", "9"}

\* A decimal digit outside ASCII (U+0661), one atom of the model's texts.
ArabicIndicOne == "ARABIC-INDIC DIGIT ONE"

\* \d of a str pattern compiled without re.ASCII: every Unicode decimal digit
ReDigit == AsciiDigit \cup {ArabicIndicOne}

\* \d{n} at position i
MatchDigits(s, i, n) ==
    /\ i + n - 1 <= Len(s)
    /\ \A k \in i..(i + n - 1) : s[k] \in ReDigit

\* $ without re.MULTILINE: at the end, or just before a final line break
MatchEnd(s, i) ==
    \/ i = Len(s) + 1
    \/ i = Len(s) /\ s[i] = "\n"

PHONE_PATTERN(s) ==
    /\ Len(s) >= 4
    /\ s[1] = "0"
    /\ s[2] = "1"
    /\ s[3] \in {"0", "1", "6", "7", "8", "9"}
    /\ s[4] = "-"
    /\ \E m \in {3, 4} :
          /\ MatchDigits(s, 5, m)
          /\ 5 + m <= Len(s)
          /\ s[5 + m] = "-"
          /\ MatchDigits(s, 6 + m, 4)
          /\ MatchEnd(s, 10 + m)

is_valid_phone(text) == PHONE_PATTERN(text)

-----------------------------------------------------------------------------
(* Users, chats and authorization *)

\* ADMIN_IDS of the environment: the static administrators
ENV_ADMIN_IDS == {1, 2}

\* message.from_user.username of each user of the model (None: not set)
Username(u) ==
    CASE u = 1 -> Some(<<"a">>)
      [] u = 2 -> None
      [] u = 3 -> Some(<<"B">>)
      [] OTHER -> Some(<<"c">>)

\* message.chat.type: group chats have negative ids, a private chat has the
\* id of its user
ChatType(chat_id) == IF chat_id < 0 THEN "group" ELSE "private"

is_admin(uid) == uid \in ADMIN_IDS \/ uid \in ENV_ADMIN_IDS

is_user_blocked(uid) ==
    (~BOT_ACTIVE) /\ uid \notin ADMIN_IDS /\ uid \notin ENV_ADMIN_IDS

-----------------------------------------------------------------------------
(* Replies.  reply is what the last handler step sent with message.reply:   *)
(* its kind, and for the result of a draw the announced handles, the number *)
(* of participants and the number of winners; for the report of a batch     *)
(* delete the handles reported deleted and not found.  A step that sends    *)
(* nothing leaves the kind "none" when it returned and "exception" when an  *)
(* exception ended the handler.                                             *)

Reply(kind) ==
    [kind |-> kind, winners |-> <<>>, total |-> 0, count |-> 0,
     deleted |-> {}, not_found |-> {}]

NoReply == Reply("none")

Raised == Reply("exception")

\* dict.pop(uid, None)
Pop(d, uid) == [u \in (DOMAIN d) \ {uid} |-> d[u]]

\* d[uid] = v
Put(d, uid, v) == [u \in (DOMAIN d) \cup {uid} |-> IF u = uid THEN v ELSE d[u]]

\* The dict kept in admin_states; a key a flow does not hold is None / empty.
State(type, step, product_name, handle, groups) ==
    [type |-> type, step |-> step, product_name |-> product_name,
     handle |-> handle, groups |-> groups]

raffleVars == <<lotteries, lottery_participants, admin_config, tasks>>
adminVars == <<ADMIN_IDS, admins, BOT_ACTIVE>>
pureVars == <<inp, out>>

-----------------------------------------------------------------------------
(* Command handlers of the winner flows.  Each runs without suspension up   *)
(* to its reply, which is its last statement.                               *)

\* A handler step that returns without a reply and without an effect
Ignored ==
    /\ reply' = NoReply
    /\ UNCHANGED <<winners, admin_states, pending_phone_users,
                   raffleVars, adminVars, pureVars>>

\* A handler ended by an exception before any effect and any reply
Raise ==
    /\ reply' = Raised
    /\ UNCHANGED <<winners, admin_states, pending_phone_users,
                   raffleVars, adminVars, pureVars>>

\* A handler step whose only effect is its reply
OnlyReply(kind) ==
    /\ reply' = Reply(kind)
    /\ UNCHANGED <<winners, admin_states, pending_phone_users,
                   raffleVars, adminVars, pureVars>>

\* A command that seeds admin_states[uid] and prompts
SeedState(uid, st, kind) ==
    /\ admin_states' = Put(admin_states, uid, st)
    /\ reply' = Reply(kind)
    /\ UNCHANGED <<winners, pending_phone_users, raffleVars, adminVars, pureVars>>

add_winner_cmd(uid) ==
    IF ~is_admin(uid) THEN Ignored
    ELSE SeedState(uid, State("add_winner", "product_name", None, None, <<>>),
                   "ask_product_name")

delete_product_cmd(uid) ==
    IF ~is_admin(uid) THEN Ignored
    ELSE SeedState(uid, State("delete_product", "product_name", None, None, <<>>),
                   "ask_product_name")

delete_winner_cmd(uid) ==
    IF ~is_admin(uid) THEN Ignored
    ELSE SeedState(uid, State("delete_winner", "product_name", None, None, <<>>),
                   "ask_product_name")

change_product_name_cmd(uid) ==
    IF ~is_admin(uid) THEN Ignored
    ELSE SeedState(uid, State("change_product", "handle", None, None, <<>>),
                   "ask_handle")

clear_phones_product_cmd(uid) ==
    IF ~is_admin(uid) THEN Ignored
    ELSE SeedState(uid, State("clear_phones_product", "product_name", None, None, <<>>),
                   "ask_product_name")

\* /set_groups, in a private chat only
set_groups_cmd(uid, chat_id) ==
    IF ~is_admin(uid) THEN Ignored
    ELSE IF ChatType(chat_id) # "private" THEN OnlyReply("private_only")
    ELSE SeedState(uid, State("set_groups", "groups_input", None, None, <<>>),
                   "ask_groups")

clear_all_cmd(uid) ==
    IF ~is_admin(uid) THEN Ignored
    ELSE /\ winners' = clear_all_phones(winners)
         /\ reply' = Reply("phones_cleared")
         /\ UNCHANGED <<admin_states, pending_phone_users,
                        raffleVars, adminVars, pureVars>>

\* A faulty cancel_cmd: the whole dict is emptied
cancel_cmd_clear(uid) ==
    IF ~is_admin(uid) THEN Ignored
    ELSE IF uid \in DOMAIN admin_states
    THEN /\ admin_states' = <<>>
         /\ reply' = Reply("cancelled")
         /\ UNCHANGED <<winners, pending_phone_users,
                        raffleVars, adminVars, pureVars>>
    ELSE OnlyReply("nothing_to_cancel")

cancel_cmd(uid) ==
    IF ~is_admin(uid) THEN Ignored
    ELSE IF uid \in DOMAIN admin_states
    THEN /\ admin_states' = Pop(admin_states, uid)
         /\ reply' = Reply("cancelled")
         /\ UNCHANGED <<winners, pending_phone_users,
                        raffleVars, adminVars, pureVars>>
    ELSE OnlyReply("nothing_to_cancel")

\* /submit_winner; find_pending_handle_for_user returns one of the rows found
submit_cmd(uid) ==
    IF is_user_blocked(uid) THEN Ignored
    ELSE IF Username(uid) = None THEN OnlyReply("need_username")
    ELSE IF find_pending_handle_for_user(winners, Username(uid)) = {}
    THEN OnlyReply("not_a_winner")
    ELSE \E row \in find_pending_handle_for_user(winners, Username(uid)) :
            /\ pending_phone_users' = Put(pending_phone_users, uid, row.handle)
            /\ reply' = Reply("ask_phone")
            /\ UNCHANGED <<winners, admin_states, raffleVars, adminVars, pureVars>>

-----------------------------------------------------------------------------
(* admin_config: rows [user_id, required_groups]; the global setting is the *)
(* row of GLOBAL_CONFIG_USER_ID.                                            *)

GLOBAL_CONFIG_USER_ID == 0

\* ",".join(groups)
RECURSIVE JoinComma(_)
JoinComma(groups) ==
    IF groups = <<>> THEN <<>>
    ELSE IF Len(groups) = 1 THEN groups[1]
    ELSE groups[1] \o <<",">> \o JoinComma(Tail(groups))

\* INSERT ... ON CONFLICT (user_id) DO UPDATE SET required_groups = ...
set_admin_required_groups(t, user_id, groups_str) ==
    {r \in t : r.user_id # GLOBAL_CONFIG_USER_ID}
        \cup {[user_id |-> GLOBAL_CONFIG_USER_ID, required_groups |-> groups_str]}

\* The global row when it holds a non-empty value, else the row of user_id,
\* else "".
get_admin_required_groups(t, user_id) ==
    IF \E r \in t : r.user_id = GLOBAL_CONFIG_USER_ID /\ r.required_groups # <<>>
    THEN (CHOOSE r \in t : r.user_id = GLOBAL_CONFIG_USER_ID).required_groups
    ELSE IF \E r \in t : r.user_id = user_id /\ r.required_groups # <<>>
    THEN (CHOOSE r \in t : r.user_id = user_id).required_groups
    ELSE <<>>

-----------------------------------------------------------------------------
(* text_handler: every text message no command handler takes.               *)

\* The commands the last block of text_handler leaves the state for
UserCommands ==
    { <<"/", "s", "t", "a", "r", "t">>, <<"/", "f", "o", "r", "m">>,
      <<"/", "l", "i", "s", "t", "_", "w", "i", "n", "n", "e", "r", "s">>,
      <<"/", "s", "u", "b", "m", "i", "t", "_", "w", "i", "n", "n", "e", "r">>,
      <<"/", "j", "o", "i", "n">>, <<"/", "h", "e", "l", "p">> }

End == <<"/", "e", "n", "d">>

\* State update and reply of a step that touches admin_states only
StateStep(states, kind) ==
    /\ admin_states' = states
    /\ reply' = Reply(kind)
    /\ UNCHANGED <<winners, pending_phone_users, raffleVars, adminVars, pureVars>>

\* Store update of a step that also ends the flow of uid
StoreStep(uid, table, r) ==
    /\ winners' = table
    /\ admin_states' = Pop(admin_states, uid)
    /\ reply' = r
    /\ UNCHANGED <<pending_phone_users, raffleVars, adminVars, pureVars>>

\* 1) the sender is awaited for a phone
PhoneStep(uid, text) ==
    IF ~is_valid_phone(text) THEN OnlyReply("phone_format_error")
    ELSE /\ pending_phone_users' = Pop(pending_phone_users, uid)
         /\ winners' = update_phone_for_handle(winners, pending_phone_users[uid], text)
         /\ reply' = Reply("phone_registered")
         /\ UNCHANGED <<admin_states, raffleVars, adminVars, pureVars>>

AddWinnerStep(uid, state, text) ==
    IF state.step = "product_name"
    THEN StateStep(Put(admin_states, uid,
                       [state EXCEPT !.product_name = Some(text), !.step = "handles"]),
                   "ask_handles")
    ELSE IF text = End
    THEN StateStep(Pop(admin_states, uid), "add_done")
    ELSE /\ winners' = add_winners(winners, state.product_name[1],
                                   StrippedNonEmpty(SplitLines(text)))
         /\ reply' = Reply("handles_added")
         /\ UNCHANGED <<admin_states, pending_phone_users,
                        raffleVars, adminVars, pureVars>>

DeleteProductStep(uid, text) ==
    StoreStep(uid, delete_product_winners(winners, text), Reply("product_deleted"))

DeleteWinnerStep(uid, state, text) ==
    IF state.step = "product_name"
    THEN StateStep(Put(admin_states, uid,
                       [state EXCEPT !.product_name = Some(text), !.step = "handles"]),
                   "ask_handles")
    ELSE IF Strip(text) = End
    THEN StateStep(Pop(admin_states, uid), "delete_done")
    ELSE IF StrippedNonEmpty(SplitLines(text)) = <<>>
    THEN OnlyReply("no_valid_handle")
    ELSE LET res == delete_winners_by_product_and_handles(
                        winners, state.product_name[1],
                        StrippedNonEmpty(SplitLines(text)), {})
             deleted == {e.raw : e \in {x \in res.results : x.count > 0}}
             not_found == {e.raw : e \in {x \in res.results : x.count = 0}}
         IN  StoreStep(uid, res.table,
                       [Reply(IF deleted \cup not_found # {}
                              THEN "delete_report" ELSE "nothing_deleted")
                        EXCEPT !.deleted = deleted, !.not_found = not_found])

ClearPhonesProductStep(uid, text) ==
    StoreStep(uid, clear_product_phones(winners, text), Reply("product_phones_cleared"))

\* An IntegrityError of change_product_name_for_handle leaves text_handler
\* before admin_states.pop and before any reply.
ChangeProductStep(uid, state, text) ==
    IF state.step = "handle"
    THEN StateStep(Put(admin_states, uid,
                       [state EXCEPT !.handle = Some(text), !.step = "new_product_name"]),
                   "ask_new_product_name")
    ELSE LET res == change_product_name_for_handle(winners, state.handle[1], text)
         IN  IF res.result = "IntegrityError" THEN Raise
             ELSE StoreStep(uid, res.table,
                            Reply(IF res.result = "True" THEN "product_changed"
                                  ELSE "conflict_or_not_found"))

SetGroupsStep(uid, state, raw, text) ==
    LET groups == IF text # End
                  THEN state.groups \o StrippedNonEmpty(SplitLines(text))
                  ELSE state.groups
        groups_str == JoinComma(groups)
    IN  IF Lower(text) = End \/ StartsWith(raw, "/")
        THEN IF groups_str = <<>>
             THEN StateStep(Put(admin_states, uid, [state EXCEPT !.groups = groups]),
                            "groups_empty")
             ELSE /\ admin_config' = set_admin_required_groups(admin_config, uid, groups_str)
                  /\ admin_states' = Pop(admin_states, uid)
                  /\ reply' = Reply("groups_set")
                  /\ UNCHANGED <<winners, pending_phone_users, lotteries,
                                 lottery_participants, tasks, adminVars, pureVars>>
        ELSE StateStep(Put(admin_states, uid, [state EXCEPT !.groups = groups]),
                       "groups_continue")

\* The last block: reached with a state no flow above handles
LastBlock(uid, text) ==
    IF StartsWith(text, "/") /\ text \notin UserCommands
    THEN /\ admin_states' = Pop(admin_states, uid)
         /\ reply' = NoReply
         /\ UNCHANGED <<winners, pending_phone_users, raffleVars, adminVars, pureVars>>
    ELSE Ignored

text_handler(uid, raw) ==
    LET text == Strip(raw)
    IN  IF is_user_blocked(uid) THEN Ignored
        ELSE IF uid \in DOMAIN pending_phone_users THEN PhoneStep(uid, text)
        ELSE IF uid \notin DOMAIN admin_states THEN Ignored
        ELSE LET state == admin_states[uid]
             IN  IF state.type = "add_winner" /\ state.step \in {"product_name", "handles"}
                 THEN AddWinnerStep(uid, state, text)
                 ELSE IF state.type = "delete_product" /\ state.step = "product_name"
                 THEN DeleteProductStep(uid, text)
                 ELSE IF state.type = "delete_winner"
                         /\ state.step \in {"product_name", "handles"}
                 THEN DeleteWinnerStep(uid, state, text)
                 ELSE IF state.type = "clear_phones_product" /\ state.step = "product_name"
                 THEN ClearPhonesProductStep(uid, text)
                 ELSE IF state.type = "change_product"
                         /\ state.step \in {"handle", "new_product_name"}
                 THEN ChangeProductStep(uid, state, text)
                 ELSE IF state.type = "set_groups" /\ state.step = "groups_input"
                 THEN SetGroupsStep(uid, state, raw, text)
                 ELSE LastBlock(uid, text)

-----------------------------------------------------------------------------
(* Initial state: empty tables, empty in-memory dicts, the bot on. *)

EmptyDict == <<>>

InitBot ==
    /\ winners = {}
    /\ admin_states = EmptyDict
    /\ pending_phone_users = EmptyDict
    /\ lotteries = {}
    /\ lottery_participants = {}
    /\ admin_config = {}
    /\ tasks = EmptyBag
    /\ ADMIN_IDS = {}
    /\ admins = {}
    /\ BOT_ACTIVE = TRUE
    /\ reply = NoReply

Init ==
    /\ InitBot
    /\ inp = <<>>
    /\ out = None

-----------------------------------------------------------------------------
(* The winner flows: one administrator (user 1, whose username is a        *)
(* registered handle) and one ordinary user run the commands of the winner  *)
(* flows and send texts.                                                    *)

\* Rows the winners table holds at most
MaxWinners == 2

WinnerUsers == {1, 3}

ValidPhone == <<"0", "1", "0", "-", "1", "2", "3", "4", "-", "5", "6", "7", "8">>

ProductTexts == { <<"p">>, <<"q">>, <<"r">> }

\* Handle lines: with and without "@", in both letter cases, and a message
\* of two lines with surrounding blanks
HandleTexts ==
    { <<"a">>, <<"@", "A">>, <<"b">>, <<"a", " ", "\n", " ", "@", "a">> }

\* Texts sent to a user awaited for a phone: a well-formed and a malformed one
PhoneTexts == { ValidPhone, <<"p">> }

\* The texts a user sends: an answer to the prompt of the step of the flow
\* the user started, a phone when the user was asked for one, any text
\* otherwise.
StepTexts(step) ==
    CASE step \in {"product_name", "new_product_name"} -> ProductTexts
      [] step = "handles" -> HandleTexts \cup {End}
      [] step = "handle" -> HandleTexts
      [] OTHER -> {}

SentTexts(uid) ==
    (IF uid \in DOMAIN pending_phone_users THEN PhoneTexts ELSE {})
    \cup (IF uid \in DOMAIN admin_states
          THEN StepTexts(admin_states[uid].step) ELSE {})
    \cup (IF uid \notin DOMAIN pending_phone_users /\ uid \notin DOMAIN admin_states
          THEN { <<"p">> } ELSE {})

\* A text message of uid reaches text_handler (the table stays within
\* MaxWinners rows)
SendText(uid, raw) ==
    /\ text_handler(uid, raw)
    /\ Cardinality(winners') <= MaxWinners

NextWinners ==
    \/ \E uid \in WinnerUsers : add_winner_cmd(uid)
    \/ \E uid \in WinnerUsers : delete_product_cmd(uid)
    \/ \E uid \in WinnerUsers : delete_winner_cmd(uid)
    \/ \E uid \in WinnerUsers : change_product_name_cmd(uid)
    \/ \E uid \in WinnerUsers : clear_phones_product_cmd(uid)
    \/ \E uid \in WinnerUsers : clear_all_cmd(uid)
    \/ \E uid \in WinnerUsers : cancel_cmd(uid)
    \/ \E uid \in WinnerUsers : submit_cmd(uid)
    \/ \E uid \in WinnerUsers : \E raw \in SentTexts(uid) : SendText(uid, raw)

SpecWinners == Init /\ [][NextWinners]_vars

-----------------------------------------------------------------------------
(* Properties of the winner flows *)

\* text_handler takes the next text of uid as the given step of the given flow
InFlow(uid, type, step) ==
    /\ ~is_user_blocked(uid)
    /\ uid \notin DOMAIN pending_phone_users
    /\ uid \in DOMAIN admin_states
    /\ admin_states[uid].type = type
    /\ admin_states[uid].step = step

\* uid started the given flow and is at the given step of it
AtStep(uid, type, step) ==
    /\ uid \in DOMAIN admin_states
    /\ admin_states[uid].type = type
    /\ admin_states[uid].step = step

\* The lines of a message as the flows read them
Lines(raw) == StrippedNonEmpty(SplitLines(Strip(raw)))

\* Two handle texts that differ only in surrounding whitespace, a leading
\* "@" or letter case
SameHandle(h1, h2) == Lower(PrefixAt(Strip(h1))) = Lower(PrefixAt(Strip(h2)))

\* The unique index of the winners table
UniqueWinners(t) ==
    \A r1, r2 \in t :
        (r1.product_name = r2.product_name /\ r1.handle = r2.handle) => r1 = r2

\* C1 (as claimed): after handle lines are added to product p in the
\* add-winner flow, p has exactly one record for each input handle, handles
\* counted the same when they differ only in whitespace, a leading "@" or
\* letter case; and the records that existed (their phones included) are
\* unchanged.
C1_OneRecordPerHandle ==
    [][\A uid \in WinnerUsers : \A raw \in HandleTexts :
          (InFlow(uid, "add_winner", "handles") /\ SendText(uid, raw)) =>
              LET p == admin_states[uid].product_name[1]
              IN  /\ \A i \in 1..Len(Lines(raw)) :
                        Cardinality({r \in winners' :
                                        /\ r.product_name = p
                                        /\ SameHandle(r.handle, Lines(raw)[i])}) = 1
                  /\ winners \subseteq winners']_vars

\* C3: the delete-product step removes exactly the records of the named
\* product (none when the product has no record, the table then being
\* unchanged), leaves the records of every other product as they were, and
\* clears the administrator's conversation state.
C3_DeleteProduct ==
    [][\A uid \in WinnerUsers : \A raw \in ProductTexts :
          (InFlow(uid, "delete_product", "product_name") /\ SendText(uid, raw)) =>
              /\ (~\E r \in winners : r.product_name = raw) => winners' = winners
              /\ \A r \in winners : r.product_name # raw => r \in winners'
              /\ \A r \in winners' : r \in winners /\ r.product_name # raw
              /\ uid \notin DOMAIN admin_states']_vars

\* C3 witness: a product was deleted while a record of another product
\* stayed, and the state of the administrator is gone.
C3_Witness ==
    /\ reply.kind = "product_deleted"
    /\ winners # {}
    /\ 1 \notin DOMAIN admin_states

\* C4 (as claimed): the last step of the change-product flow reports a
\* conflict and changes nothing when the handle has a record under the new
\* product; when the handle has records and there is no conflict it reports
\* success, every record of the handle is then keyed under the new product,
\* no other record changes and (product, handle) stays unique.
C4_ChangeProduct ==
    [][\A uid \in WinnerUsers : \A raw \in ProductTexts :
          (InFlow(uid, "change_product", "new_product_name") /\ SendText(uid, raw)) =>
              LET h == admin_states[uid].handle[1]
                  rows == {r \in winners : SameHandle(r.handle, h)}
              IN  IF \E r \in rows : r.product_name = raw
                  THEN reply'.kind = "conflict_or_not_found" /\ winners' = winners
                  ELSE rows # {} =>
                         /\ reply'.kind = "product_changed"
                         /\ \A r \in rows : [r EXCEPT !.product_name = raw] \in winners'
                         /\ \A r \in winners \ rows : r \in winners'
                         /\ \A r \in winners' :
                               \/ r \in winners \ rows
                               \/ \E o \in rows : r = [o EXCEPT !.product_name = raw]
                         /\ UniqueWinners(winners')]_vars

\* C10 (as claimed): each message of the sequence /add_winner, p, h1 .. hn,
\* /end has its effect.  After /add_winner by an administrator the next text
\* of that administrator is read as the product name of the add-winner flow;
\* the product name p moves the flow to the handle step with p recorded;
\* each handle message leaves a record (p, "@"-prefixed line) for each of
\* its lines, a new record with a null phone, the existing records
\* unchanged, and the flow stays at the handle step; /end clears the
\* conversation state of the administrator.
C10_AddWinnerSequence ==
    [][\A uid \in WinnerUsers :
          /\ (is_admin(uid) /\ add_winner_cmd(uid)) =>
                InFlow(uid, "add_winner", "product_name")'
          /\ \A raw \in ProductTexts :
                (InFlow(uid, "add_winner", "product_name") /\ SendText(uid, raw)) =>
                    /\ InFlow(uid, "add_winner", "handles")'
                    /\ admin_states'[uid].product_name = Some(raw)
          /\ \A raw \in HandleTexts :
                (InFlow(uid, "add_winner", "handles") /\ SendText(uid, raw)) =>
                    LET p == admin_states[uid].product_name[1]
                    IN  /\ \A i \in 1..Len(Lines(raw)) :
                              \E r \in winners' :
                                  /\ r.product_name = p
                                  /\ r.handle = PrefixAt(Lines(raw)[i])
                        /\ \A r \in winners' \ winners : r.phone_number = None
                        /\ winners \subseteq winners'
                        /\ InFlow(uid, "add_winner", "handles")'
          /\ (InFlow(uid, "add_winner", "handles") /\ SendText(uid, End)) =>
                uid \notin DOMAIN admin_states']_vars

\* The user's public handle names the handle text h (letter case ignored)
OwnHandle(uid, h) == Username(uid) # None /\ SameHandle(Username(uid)[1], h)

\* C11: /submit_winner of a user (not blocked) whose public handle matches
\* a winner record sets the pending-phone marker of that user to a handle
\* that is the user's own, prompts for the phone and changes no record; a
\* well-formed phone then sent by that user is written to every record of
\* that handle, whatever its product, no other record changes, the marker
\* is cleared and the registration is confirmed.
C11_SubmitPhone ==
    [][\A uid \in WinnerUsers :
          /\ (/\ ~is_user_blocked(uid)
              /\ \E r \in winners : OwnHandle(uid, r.handle)
              /\ submit_cmd(uid)) =>
                 /\ uid \in DOMAIN pending_phone_users'
                 /\ OwnHandle(uid, pending_phone_users'[uid])
                 /\ reply'.kind = "ask_phone"
                 /\ winners' = winners
          /\ (/\ ~is_user_blocked(uid)
              /\ uid \in DOMAIN pending_phone_users
              /\ OwnHandle(uid, pending_phone_users[uid])
              /\ SendText(uid, ValidPhone)) =>
                 /\ winners' =
                       {IF OwnHandle(uid, r.handle)
                        THEN [r EXCEPT !.phone_number = Some(ValidPhone)]
                        ELSE r : r \in winners}
                 /\ uid \notin DOMAIN pending_phone_users'
                 /\ reply'.kind = "phone_registered"]_vars

\* C11 witness: a phone was registered on the records of one handle under
\* two products, and no user is awaited for a phone any more.
C11_Witness ==
    /\ reply.kind = "phone_registered"
    /\ DOMAIN pending_phone_users = {}
    /\ \E r1, r2 \in winners :
          /\ r1.product_name # r2.product_name
          /\ r1.phone_number = Some(ValidPhone)
          /\ r2.phone_number = Some(ValidPhone)

\* C19: in the add-winner flow a message of handle lines changes only the
\* conversation state of the admin, never the winners table (the table
\* would change at /end only, so that a /cancel before /end leaves it as it
\* was before /add_winner).
C19_WriteOnEnd ==
    [][\A uid \in WinnerUsers : \A raw \in HandleTexts :
          (InFlow(uid, "add_winner", "handles") /\ SendText(uid, raw)) =>
              winners' = winners]_vars

\* C20: in the handles step of the delete-winner flow every line of the
\* message is reported either as deleted or as not found, as deleted
\* exactly when a record of the product with that handle existed before the
\* message; afterwards no record of the product has a handle of the
\* message, and every other record is unchanged.
C20_DeleteReport ==
    [][\A uid \in WinnerUsers : \A raw \in HandleTexts :
          (InFlow(uid, "delete_winner", "handles") /\ SendText(uid, raw)) =>
              LET p == admin_states[uid].product_name[1]
                  Hit(r, h) == r.product_name = p /\ SameHandle(r.handle, h)
              IN  /\ \A i \in 1..Len(Lines(raw)) :
                        LET h == Lines(raw)[i]
                        IN  /\ h \in reply'.deleted \cup reply'.not_found
                            /\ h \notin reply'.deleted \cap reply'.not_found
                            /\ h \in reply'.deleted <=> \E r \in winners : Hit(r, h)
                  /\ winners' =
                        {r \in winners :
                            \A i \in 1..Len(Lines(raw)) : ~Hit(r, Lines(raw)[i])}]_vars

\* C22: the step new_product_name of the change-product flow always ends
\* with a reply to the admin (changed, or conflict / not found) and with the
\* conversation state of the admin removed, whatever the table holds.
C22_NeverCrash ==
    [][\A uid \in WinnerUsers : \A raw \in ProductTexts :
          (InFlow(uid, "change_product", "new_product_name") /\ SendText(uid, raw)) =>
              /\ reply'.kind \in {"product_changed", "conflict_or_not_found"}
              /\ uid \notin DOMAIN admin_states']_vars

\* C27: in every reachable state no user has both a pending-phone marker
\* and a conversation state in admin_states.
C27_OneWorkflow ==
    \A uid \in WinnerUsers :
        ~(uid \in DOMAIN pending_phone_users /\ uid \in DOMAIN admin_states)

\* C28: after a /submit_winner that fails the verification of the handle
\* (the sender has no username, or no record has the sender's handle) the
\* sender has no pending-phone marker, whether or not one existed before.
C28_FailedSubmitClearsMarker ==
    [][\A uid \in WinnerUsers :
          (/\ ~is_user_blocked(uid)
           /\ \/ Username(uid) = None
              \/ find_pending_handle_for_user(winners, Username(uid)) = {}
           /\ submit_cmd(uid)) =>
              uid \notin DOMAIN pending_phone_users']_vars

-----------------------------------------------------------------------------
(* The handle add_winners writes, as a function of the input line: every    *)
(* text over HandleAlphabet up to MaxHandleLen characters, and the two      *)
(* texts "@FooBar " and "foobar".                                           *)

MaxHandleLen == 3

HandleAlphabet == {" ", "@", "a", "A"}

TextsUpTo(alphabet, n) == UNION {[1..k -> alphabet] : k \in 0..n}

FooBarInput == <<"@", "F", "o", "o", "B", "a", "r", " ">>

FoobarInput == <<"f", "o", "o", "b", "a", "r">>

HandleInputs ==
    TextsUpTo(HandleAlphabet, MaxHandleLen) \cup {FooBarInput, FoobarInput}

InitHandle ==
    /\ InitBot
    /\ inp \in HandleInputs
    /\ out = None

\* add_winners computes the handle it writes for the line inp
WriteHandle ==
    /\ out = None
    /\ out' = StoredHandle(inp)
    /\ UNCHANGED <<winners, admin_states, pending_phone_users, raffleVars,
                   adminVars, reply, inp>>

\* the handle written is given to add_winners again
WriteAgain ==
    /\ out # None
    /\ inp' = out[1]
    /\ out' = StoredHandle(out[1])
    /\ UNCHANGED <<winners, admin_states, pending_phone_users, raffleVars,
                   adminVars, reply>>

NextHandle == WriteHandle \/ WriteAgain

SpecHandle == InitHandle /\ [][NextHandle]_vars

\* C2 (as claimed): the handle written is a fixed point of the normalization
\* (normalizing it again gives the same handle), and the lines "@FooBar "
\* and "foobar" are both written as "@foobar".
C2_NormalizeFixedPoint ==
    out # None =>
        /\ StoredHandle(out[1]) = out
        /\ inp \in {FooBarInput, FoobarInput} =>
              out = Some(<<"@", "f", "o", "o", "b", "a", "r">>)

-----------------------------------------------------------------------------
(* is_valid_phone as a function of the text: the two well-formed numbers    *)
(* (middle group of four and of three digits), every text one character     *)
(* replaced, removed or inserted away from them, and the texts the          *)
(* specification names.                                                     *)

ValidPhone3 == <<"0", "1", "0", "-", "1", "2", "3", "-", "4", "5", "6", "7">>

PhoneAlphabet == {"0", "1", "2", "5", "-", "x", " ", "\n", ArabicIndicOne}

ReplaceAt(s, i, c) == [s EXCEPT ![i] = c]

DeleteAt(s, i) == SubSeq(s, 1, i - 1) \o SubSeq(s, i + 1, Len(s))

\* c inserted before position i (i = Len(s) + 1: appended)
InsertAt(s, i, c) == SubSeq(s, 1, i - 1) \o <<c>> \o SubSeq(s, i, Len(s))

OneEdit(s) ==
    {s} \cup {ReplaceAt(s, i, c) : i \in 1..Len(s), c \in PhoneAlphabet}
        \cup {DeleteAt(s, i) : i \in 1..Len(s)}
        \cup {InsertAt(s, i, c) : i \in 1..(Len(s) + 1), c \in PhoneAlphabet}

NoDashes == <<"0", "1", "0", "1", "2", "3", "4", "5", "6", "7", "8">>

LongMiddle ==
    <<"0", "1", "0", "-", "1", "2", "3", "4", "5", "-", "6", "7", "8", "9">>

ShortLast == <<"0", "1", "0", "-", "1", "2", "3", "4", "-", "5", "6", "7">>

PhoneInputs ==
    OneEdit(ValidPhone) \cup OneEdit(ValidPhone3)
        \cup {NoDashes, LongMiddle, ShortLast}

InitPhone ==
    /\ InitBot
    /\ inp \in PhoneInputs
    /\ out = None

\* is_valid_phone(inp) is computed
ValidatePhone ==
    /\ out = None
    /\ out' = Some(is_valid_phone(inp))
    /\ UNCHANGED <<winners, admin_states, pending_phone_users, raffleVars,
                   adminVars, reply, inp>>

NextPhone == ValidatePhone

SpecPhone == InitPhone /\ [][NextPhone]_vars

\* The form 01D-NNN(N)-NNNN: D in {0,1,6,7,8,9}, a middle group of three or
\* four digits 0-9, a last group of four digits 0-9, and nothing else
PhoneForm(s) ==
    /\ Len(s) \in {12, 13}
    /\ s[1] = "0"
    /\ s[2] = "1"
    /\ s[3] \in {"0", "1", "6", "7", "8", "9"}
    /\ s[4] = "-"
    /\ \A k \in 5..(Len(s) - 5) : s[k] \in AsciiDigit
    /\ s[Len(s) - 4] = "-"
    /\ \A k \in (Len(s) - 3)..Len(s) : s[k] \in AsciiDigit

\* C9 (as claimed): phone validation accepts exactly the texts of the form
\* 01D-NNN(N)-NNNN; it accepts "010-1234-5678" and rejects "01012345678",
\* "010-12345-6789" and "010-1234-567".
C9_PhoneForm ==
    out # None =>
        /\ out[1] = PhoneForm(inp)
        /\ inp = ValidPhone => out[1] = TRUE
        /\ inp \in {NoDashes, LongMiddle, ShortLast} => out[1] = FALSE

-----------------------------------------------------------------------------
(* The raffle store.  lotteries holds at most one row per chat_id (its      *)
(* primary key); lottery_participants at most one row per (chat_id,         *)
(* user_id).                                                                *)

LotteryRow(chat_id, duration, winner_count, required_groups, state, message_id) ==
    [chat_id |-> chat_id, duration_minutes |-> duration,
     winner_count |-> winner_count, required_groups |-> required_groups,
     state |-> state, message_id |-> message_id]

ParticipantRow(chat_id, user_id, username) ==
    [chat_id |-> chat_id, user_id |-> user_id, username |-> username]

\* A faulty get_current_lottery: the SELECT finds no row
get_current_lottery_none(t, chat_id) == {}

\* SELECT * FROM lotteries WHERE chat_id = %s AND state = 'ACTIVE'
get_current_lottery(t, chat_id) ==
    {r \in t : r.chat_id = chat_id /\ r.state = "ACTIVE"}

\* False when an ACTIVE row exists; else the INSERT, which the primary key
\* refuses with IntegrityError when the chat has a row in any state.
start_new_lottery(t, chat_id, duration, winner_count, required_groups, message_id) ==
    IF get_current_lottery(t, chat_id) # {}
    THEN [result |-> "False", table |-> t]
    ELSE IF \E r \in t : r.chat_id = chat_id
    THEN [result |-> "IntegrityError", table |-> t]
    ELSE [result |-> "True",
          table |-> t \cup {LotteryRow(chat_id, duration, winner_count,
                                       required_groups, "ACTIVE", message_id)}]

\* UPDATE lotteries SET state = 'ENDED' WHERE chat_id = %s AND state = 'ACTIVE'
end_lottery(t, chat_id) ==
    {IF r.chat_id = chat_id /\ r.state = "ACTIVE"
     THEN [r EXCEPT !.state = "ENDED"] ELSE r : r \in t}

\* UPDATE lotteries SET message_id = %s WHERE chat_id = %s
UpdateMessageId(t, chat_id, message_id) ==
    {IF r.chat_id = chat_id THEN [r EXCEPT !.message_id = message_id] ELSE r : r \in t}

\* A faulty add_participant: a table without the key (chat_id, user_id)
add_participant_no_key(t, chat_id, user_id, username) ==
    [result |-> TRUE, table |-> t \cup {ParticipantRow(chat_id, user_id, username)}]

\* The INSERT; IntegrityError of the primary key is caught and gives False.
add_participant(t, chat_id, user_id, username) ==
    IF \E r \in t : r.chat_id = chat_id /\ r.user_id = user_id
    THEN [result |-> FALSE, table |-> t]
    ELSE [result |-> TRUE, table |-> t \cup {ParticipantRow(chat_id, user_id, username)}]

\* SELECT user_id, username FROM lottery_participants WHERE chat_id = %s
get_participants(t, chat_id) == {r \in t : r.chat_id = chat_id}

\* DELETE FROM lottery_participants WHERE chat_id = %s
clear_participants(t, chat_id) == {r \in t : r.chat_id # chat_id}

\* str.split(sep)
RECURSIVE SplitFrom(_, _, _)
SplitFrom(s, sep, cur) ==
    IF s = <<>> THEN <<cur>>
    ELSE IF Head(s) = sep THEN <<cur>> \o SplitFrom(Tail(s), sep, <<>>)
    ELSE SplitFrom(Tail(s), sep, Append(cur, Head(s)))

Split(s, sep) == SplitFrom(s, sep, <<>>)

\* [g.strip() for g in lottery["required_groups"].split(",") if g.strip()]
RequiredGroupList(required_groups) == StrippedNonEmpty(Split(required_groups, ","))

\* A faulty random_sample: a draw with replacement
random_sample_with_replacement(population, k) == [1..k -> population]

\* random.sample(population, k): k different members in any order
random_sample(population, k) ==
    {w \in [1..k -> population] : \A i, j \in 1..k : i # j => w[i] # w[j]}

\* A digit that is not a decimal digit (U+00B2), one atom of the model's texts
SuperscriptTwo == "SUPERSCRIPT TWO"

\* str.isdigit(): not empty, and every character a digit
isdigit(s) ==
    s # <<>> /\ \A i \in 1..Len(s) : s[i] \in ReDigit \cup {SuperscriptTwo}

\* The value int() gives a character; it takes decimal digits only
DigitValue(c) ==
    CASE c = "0" -> 0 [] c = "1" -> 1 [] c = "2" -> 2 [] c = "3" -> 3
      [] c = "4" -> 4 [] c = "5" -> 5 [] c = "6" -> 6 [] c = "7" -> 7
      [] c = "8" -> 8 [] c = "9" -> 9 [] c = ArabicIndicOne -> 1

RECURSIVE IntFrom(_, _)
IntFrom(s, acc) ==
    IF s = <<>> THEN acc ELSE IntFrom(Tail(s), 10 * acc + DigitValue(Head(s)))

\* int(s) of a text for which isdigit() holds: its value, or ValueError
int(s) ==
    IF \A i \in 1..Len(s) : s[i] \in ReDigit
    THEN [error |-> FALSE, value |-> IntFrom(s, 0)]
    ELSE [error |-> TRUE, value |-> 0]

\* f"@{w['username']}" if w["username"] else f"ID:{w['user_id']}"
WinnerHandle(w) ==
    IF w.username # <<>> THEN <<"@">> \o w.username ELSE <<"ID:", w.user_id>>

-----------------------------------------------------------------------------
(* The raffle handlers.  A handler runs without interruption from one await *)
(* to the next; a handler that has statements left after an await is kept   *)
(* in tasks and resumed by a later step, with the values of the locals it   *)
(* still reads.                                                             *)

winnerVars == <<winners, admin_states, pending_phone_users>>

\* Bounds of the raffle: suspended handlers, winner counts, message ids
MaxTasks == 2
MaxCount == 1
MaxMessageId == 1

Task(handler, uid, chat_id, message_id, groups) ==
    [handler |-> handler, uid |-> uid, chat_id |-> chat_id,
     message_id |-> message_id, groups |-> groups]

Suspend(task) == tasks (+) SetToBag({task})

Resume(task) == tasks (-) SetToBag({task})

\* A raffle handler step whose only effect is what it replies
RaffleReply(r, tasks_) ==
    /\ reply' = r
    /\ tasks' = tasks_
    /\ UNCHANGED <<lotteries, lottery_participants, admin_config,
                   winnerVars, adminVars, pureVars>>

\* /lottery [minutes] [count], up to the await of the announcement; args is
\* message.get_args().split()
lottery_start_cmd(uid, chat_id, message_id, args) ==
    IF ~is_admin(uid) THEN RaffleReply(Reply("admin_only"), tasks)
    ELSE IF ChatType(chat_id) # "group"
    THEN RaffleReply(Reply("group_only"), tasks)
    ELSE IF get_current_lottery(lotteries, chat_id) # {}
    THEN RaffleReply(Reply("already_active"), tasks)
    ELSE IF Len(args) > 0 /\ isdigit(args[1]) /\ int(args[1]).error
    THEN RaffleReply(Raised, tasks)
    ELSE IF Len(args) > 1 /\ isdigit(args[2]) /\ int(args[2]).error
    THEN RaffleReply(Raised, tasks)
    ELSE LET duration_min == IF Len(args) > 0 /\ isdigit(args[1])
                             THEN int(args[1]).value ELSE 0
             winner_count == IF Len(args) > 1 /\ isdigit(args[2])
                             THEN int(args[2]).value ELSE 1
             required_groups == get_admin_required_groups(admin_config, uid)
             started == start_new_lottery(lotteries, chat_id, duration_min,
                                          winner_count, required_groups, message_id)
         IN  IF required_groups = <<>>
             THEN RaffleReply(Reply("groups_missing"), tasks)
             ELSE IF started.result = "IntegrityError"
             THEN RaffleReply(Raised, tasks)
             ELSE IF started.result = "False"
             THEN RaffleReply(Reply("start_error"), tasks)
             ELSE /\ lotteries' = started.table
                  /\ reply' = Reply("lottery_started")
                  /\ \E sent \in (message_id + 1)..(MaxMessageId + 1) :
                        tasks' = Suspend(Task("lottery_start_cmd", 0, chat_id, sent, <<>>))
                  /\ UNCHANGED <<lottery_participants, admin_config,
                                 winnerVars, adminVars, pureVars>>

\* /lottery after the announcement was sent: the message id is recorded
lottery_start_resume(task) ==
    /\ lotteries' = UpdateMessageId(lotteries, task.chat_id, task.message_id)
    /\ tasks' = Resume(task)
    /\ reply' = NoReply
    /\ UNCHANGED <<lottery_participants, admin_config,
                   winnerVars, adminVars, pureVars>>

\* /lottery_end [count]; args is message.get_args().split().  Without
\* participants the handler replies first and ends the raffle after the await
\* of that reply.
lottery_end_cmd(uid, chat_id, args) ==
    IF ~is_admin(uid) \/ ChatType(chat_id) # "group" THEN RaffleReply(NoReply, tasks)
    ELSE IF get_current_lottery(lotteries, chat_id) = {}
    THEN RaffleReply(Reply("no_active_lottery"), tasks)
    ELSE IF Len(args) > 0 /\ isdigit(args[1]) /\ int(args[1]).error
    THEN RaffleReply(Raised, tasks)
    ELSE LET lottery == CHOOSE r \in get_current_lottery(lotteries, chat_id) : TRUE
             requested == IF Len(args) > 0 /\ isdigit(args[1])
                          THEN int(args[1]).value ELSE lottery.winner_count
             participants == get_participants(lottery_participants, chat_id)
             n == Cardinality(participants)
             winner_count == IF requested > n THEN n ELSE requested
         IN  IF participants = {}
             THEN RaffleReply(Reply("no_participants"),
                              Suspend(Task("lottery_end_cmd", 0, chat_id, 0, <<>>)))
             ELSE /\ lotteries' = end_lottery(lotteries, chat_id)
                  /\ lottery_participants' =
                         clear_participants(lottery_participants, chat_id)
                  /\ \E drawn \in random_sample(participants, winner_count) :
                        reply' = [Reply("winners") EXCEPT
                                     !.winners = [i \in 1..winner_count |->
                                                     WinnerHandle(drawn[i])],
                                     !.total = n,
                                     !.count = winner_count]
                  /\ UNCHANGED <<tasks, admin_config,
                                 winnerVars, adminVars, pureVars>>

\* /lottery_end without participants, after its reply was sent
lottery_end_resume(task) ==
    /\ lotteries' = end_lottery(lotteries, task.chat_id)
    /\ lottery_participants' = clear_participants(lottery_participants, task.chat_id)
    /\ tasks' = Resume(task)
    /\ reply' = NoReply
    /\ UNCHANGED <<admin_config, winnerVars, adminVars, pureVars>>

\* The end of /join: add_participant and the reply that tells its result
JoinInsert(uid, chat_id, tasks_) ==
    LET joined == add_participant(lottery_participants, chat_id, uid, Username(uid)[1])
    IN  /\ lottery_participants' = joined.table
        /\ reply' = IF joined.result THEN Reply("joined")
                    ELSE Reply("already_joined")
        /\ tasks' = tasks_
        /\ UNCHANGED <<lotteries, admin_config, winnerVars, adminVars, pureVars>>

\* A faulty lottery_join_cmd: the groups to check are the setting of the
\* moment, not the list of the raffle
lottery_join_cmd_setting(uid, chat_id) ==
    IF is_user_blocked(uid) \/ ChatType(chat_id) # "group" THEN RaffleReply(NoReply, tasks)
    ELSE IF get_current_lottery(lotteries, chat_id) = {}
    THEN RaffleReply(Reply("no_active_lottery"), tasks)
    ELSE IF Username(uid) = None
    THEN RaffleReply(Reply("need_username"), tasks)
    ELSE LET required_groups ==
                 RequiredGroupList(get_admin_required_groups(admin_config, uid))
         IN  IF required_groups = <<>> THEN JoinInsert(uid, chat_id, tasks)
             ELSE RaffleReply(NoReply,
                      Suspend(Task("lottery_join_cmd", uid, chat_id, 0, required_groups)))

\* /join, up to the await of the first membership lookup
lottery_join_cmd(uid, chat_id) ==
    IF is_user_blocked(uid) \/ ChatType(chat_id) # "group" THEN RaffleReply(NoReply, tasks)
    ELSE IF get_current_lottery(lotteries, chat_id) = {}
    THEN RaffleReply(Reply("no_active_lottery"), tasks)
    ELSE IF Username(uid) = None
    THEN RaffleReply(Reply("need_username"), tasks)
    ELSE LET lottery == CHOOSE r \in get_current_lottery(lotteries, chat_id) : TRUE
             required_groups == RequiredGroupList(lottery.required_groups)
         IN  IF required_groups = <<>> THEN JoinInsert(uid, chat_id, tasks)
             ELSE RaffleReply(NoReply,
                      Suspend(Task("lottery_join_cmd", uid, chat_id, 0, required_groups)))

\* A faulty lottery_join_resume: the result of the lookup is not read
lottery_join_resume_unchecked(task, ok) ==
    IF Tail(task.groups) # <<>>
    THEN RaffleReply(NoReply,
             Resume(task) (+) SetToBag({[task EXCEPT !.groups = Tail(task.groups)]}))
    ELSE JoinInsert(task.uid, task.chat_id, Resume(task))

\* /join after the membership lookup of task.groups[1] returned ok
lottery_join_resume(task, ok) ==
    IF ~ok
    THEN RaffleReply(Reply("not_qualified"), Resume(task))
    ELSE IF Tail(task.groups) # <<>>
    THEN RaffleReply(NoReply,
             Resume(task) (+) SetToBag({[task EXCEPT !.groups = Tail(task.groups)]}))
    ELSE JoinInsert(task.uid, task.chat_id, Resume(task))

-----------------------------------------------------------------------------
(* The raffle: two administrators and one ordinary user, two group chats    *)
(* and the private chat of an administrator.  The required-group setting    *)
(* is the one the store holds when the program starts: none, or two groups. *)

RaffleUsers == {1, 2, 3}
RaffleChats == {-1, -2, 1}

\* The decimal text of a number below ten
Numeral(k) == <<<<"0", "1", "2", "3", "4", "5", "6", "7", "8", "9">>[k + 1]>>

\* The arguments sent with /lottery: none, or minutes and a count, the count
\* a number, a word or a digit that is not decimal
LotteryArgs ==
    {<<>>} \cup {<<Numeral(0), t>> :
                    t \in {Numeral(k) : k \in 0..MaxCount}
                              \cup {<<"x">>, <<SuperscriptTwo>>}}
GroupSettings == { {},
                   {[user_id |-> GLOBAL_CONFIG_USER_ID,
                     required_groups |-> <<"g", ",", " ", "h">>]} }

Pending(handler) == {t \in BagToSet(tasks) : t.handler = handler}

InitRaffle ==
    /\ winners = {}
    /\ admin_states = EmptyDict
    /\ pending_phone_users = EmptyDict
    /\ lotteries = {}
    /\ lottery_participants = {}
    /\ admin_config \in GroupSettings
    /\ tasks = EmptyBag
    /\ ADMIN_IDS = {}
    /\ admins = {}
    /\ BOT_ACTIVE = TRUE
    /\ reply = NoReply
    /\ inp = <<>>
    /\ out = None

Bounded == BagCardinality(tasks') <= MaxTasks

\* The arguments sent with /lottery_end: none, a number above the counts a
\* raffle is started with, a word or a digit that is not decimal
EndArgs == {<<>>, <<Numeral(MaxCount + 1)>>, <<<<"x">>>>, <<<<SuperscriptTwo>>>>}

\* Arguments whose digit texts are decimal numbers
Decimal(args) == \A i \in 1..Len(args) : isdigit(args[i]) => ~int(args[i]).error

\* The users who write in a chat: every user in the first group chat, one
\* administrator in the second, its user in a private chat
Senders(chat_id) ==
    IF ChatType(chat_id) = "private" THEN {chat_id}
    ELSE IF chat_id = -1 THEN RaffleUsers ELSE {1}

SendLottery(uid, chat_id) ==
    \E message_id \in 1..MaxMessageId : \E args \in LotteryArgs :
        lottery_start_cmd(uid, chat_id, message_id, args) /\ Bounded

SendLotteryEnd(uid, chat_id) ==
    \E args \in EndArgs : lottery_end_cmd(uid, chat_id, args) /\ Bounded

SendJoin(uid, chat_id) == lottery_join_cmd(uid, chat_id) /\ Bounded

NextRaffle ==
    \/ \E chat_id \in RaffleChats : \E uid \in Senders(chat_id) : SendLottery(uid, chat_id)
    \/ \E task \in Pending("lottery_start_cmd") : lottery_start_resume(task)
    \/ \E chat_id \in RaffleChats : \E uid \in Senders(chat_id) : SendLotteryEnd(uid, chat_id)
    \/ \E task \in Pending("lottery_end_cmd") : lottery_end_resume(task)
    \/ \E chat_id \in RaffleChats : \E uid \in Senders(chat_id) : SendJoin(uid, chat_id)
    \/ \E task \in Pending("lottery_join_cmd") : \E ok \in BOOLEAN :
          lottery_join_resume(task, ok)

SpecRaffle == InitRaffle /\ [][NextRaffle]_vars

-----------------------------------------------------------------------------
(* Claims about the raffle *)

Active(chat_id) == \E r \in lotteries : r.chat_id = chat_id /\ r.state = "ACTIVE"

Ended(chat_id) == \E r \in lotteries : r.chat_id = chat_id /\ r.state = "ENDED"

ParticipantsOf(chat_id) == {r \in lottery_participants : r.chat_id = chat_id}

IsParticipant(uid, chat_id) == \E r \in ParticipantsOf(chat_id) : r.user_id = uid

Min(a, b) == IF a < b THEN a ELSE b

\* C5: in every reachable state each chat has at most one ACTIVE raffle row,
\* and a /lottery of an administrator in a chat whose raffle is ACTIVE is
\* answered "already active" and leaves the raffle rows and the participants
\* as they were, whatever handlers are suspended at that moment.
C5_OneActivePerChat ==
    /\ [](\A chat_id \in RaffleChats :
             Cardinality({r \in lotteries :
                            r.chat_id = chat_id /\ r.state = "ACTIVE"}) <= 1)
    /\ [][\A chat_id \in RaffleChats : \A uid \in Senders(chat_id) :
             (is_admin(uid) /\ Active(chat_id) /\ SendLottery(uid, chat_id)) =>
                 /\ reply'.kind = "already_active"
                 /\ lotteries' = lotteries
                 /\ lottery_participants' = lottery_participants]_vars

\* C5 witness: a /lottery was answered "already active" while the handler of
\* the /lottery that started the raffle is still suspended, and both group
\* chats have an ACTIVE raffle.
C5_Witness ==
    /\ reply.kind = "already_active"
    /\ Pending("lottery_start_cmd") # {}
    /\ Active(-1) /\ Active(-2)

\* C6 (as claimed): when the raffle of a chat is ENDED and its participant
\* set is empty, a /lottery of an administrator in that chat, the
\* required-group setting being non-empty and the arguments absent, words or
\* decimal numbers, starts a new ACTIVE raffle.
C6_RestartAfterEnd ==
    [][\A chat_id \in RaffleChats : \A uid \in Senders(chat_id) :
          (/\ is_admin(uid) /\ ChatType(chat_id) = "group"
           /\ Ended(chat_id) /\ ParticipantsOf(chat_id) = {}
           /\ get_admin_required_groups(admin_config, uid) # <<>>
           /\ \E message_id \in 1..MaxMessageId :
              \E args \in {a \in LotteryArgs : Decimal(a)} :
                 lottery_start_cmd(uid, chat_id, message_id, args) /\ Bounded)
              => Active(chat_id)']_vars

\* C7: /lottery_end of an administrator on an ACTIVE raffle with n >= 1
\* participants and requested count k (the argument when it is a decimal
\* number, else the stored count: no argument, or a word)
\* announces min(k, n) handles, pairwise different, each the handle of a
\* participant of the chat at that moment, and leaves the raffle ENDED and
\* the chat without participants.  With n = 0 it announces that there is no
\* participant and names no winner; its handler is then suspended, and the
\* step that completes it leaves the raffle ENDED and the chat without
\* participants.
C7_Draw ==
    [][/\ \A chat_id \in RaffleChats : \A uid \in Senders(chat_id) :
          (is_admin(uid) /\ Active(chat_id)) =>
          \A count \in {None} \cup {Some(c) : c \in 0..(MaxCount + 1)} :
          \A args \in (IF count = None THEN {<<>>, <<<<"x">>>>}
                                        ELSE {<<Numeral(count[1])>>}) :
            lottery_end_cmd(uid, chat_id, args) =>
                LET n == Cardinality(ParticipantsOf(chat_id))
                    stored == CHOOSE r \in lotteries :
                                 r.chat_id = chat_id /\ r.state = "ACTIVE"
                    k == IF count # None THEN count[1] ELSE stored.winner_count
                IN  IF n >= 1
                    THEN /\ reply'.kind = "winners"
                         /\ Len(reply'.winners) = Min(k, n)
                         /\ reply'.count = Min(k, n)
                         /\ reply'.total = n
                         /\ \A i, j \in 1..Len(reply'.winners) :
                               i # j => reply'.winners[i] # reply'.winners[j]
                         /\ \A i \in 1..Len(reply'.winners) :
                               \E r \in ParticipantsOf(chat_id) :
                                  reply'.winners[i] = <<"@">> \o r.username
                         /\ Ended(chat_id)' /\ ~Active(chat_id)'
                         /\ ParticipantsOf(chat_id)' = {}
                    ELSE /\ reply'.kind = "no_participants"
                         /\ reply'.winners = <<>>
                         /\ \E task \in Pending("lottery_end_cmd")' :
                               task.chat_id = chat_id
       /\ \A task \in Pending("lottery_end_cmd") :
            lottery_end_resume(task) =>
                /\ Ended(task.chat_id)' /\ ~Active(task.chat_id)'
                /\ ParticipantsOf(task.chat_id)' = {}]_vars

\* C7 witness: two winners were announced although every raffle was started
\* with a count of one (the argument of /lottery_end asked for two or more),
\* every raffle is ENDED and no participant is left.
C7_Witness ==
    /\ reply.kind = "winners"
    /\ Len(reply.winners) = 2
    /\ lotteries # {}
    /\ \A r \in lotteries : r.state = "ENDED" /\ r.winner_count = 1
    /\ lottery_participants = {}

\* C8: while a user is in the participant set of a chat's ACTIVE raffle, no
\* step of a /join of that user in that chat changes the participant table,
\* and the step that ends the handler of a qualified user (every membership
\* lookup returned true) replies "already joined".
C8_DuplicateJoin ==
    [][\A chat_id \in RaffleChats : \A uid \in Senders(chat_id) :
          (Active(chat_id) /\ IsParticipant(uid, chat_id)) =>
              /\ SendJoin(uid, chat_id) =>
                    /\ lottery_participants' = lottery_participants
                    /\ \/ reply'.kind = "already_joined"
                       \/ \E task \in Pending("lottery_join_cmd")' :
                             task.uid = uid /\ task.chat_id = chat_id
              /\ \A task \in Pending("lottery_join_cmd") : \A ok \in BOOLEAN :
                    (/\ task.uid = uid /\ task.chat_id = chat_id
                     /\ lottery_join_resume(task, ok)) =>
                        /\ lottery_participants' = lottery_participants
                        /\ (ok /\ Tail(task.groups) = <<>>) =>
                               reply'.kind = "already_joined"]_vars

\* C8 witness: a /join was answered "already joined" in a state where both
\* users with a username are participants of ACTIVE raffles.
C8_Witness ==
    /\ reply.kind = "already_joined"
    /\ Cardinality(lottery_participants) >= 2
    /\ \A r \in lottery_participants : Active(r.chat_id)

\* C12: a /lottery or /lottery_end sent by a user who is not an admin is
\* ignored in silence: no reply, no suspended handler, no change of a store,
\* of the conversation tables or of a flag.
C12_NonAdminIgnored ==
    [][\A chat_id \in RaffleChats : \A uid \in Senders(chat_id) :
          (~is_admin(uid) /\ (SendLottery(uid, chat_id) \/ SendLotteryEnd(uid, chat_id))) =>
              /\ reply' = NoReply
              /\ UNCHANGED <<winnerVars, raffleVars, adminVars>>]_vars

-----------------------------------------------------------------------------
(* The admin registry, the bot switch and the commands of every user.  The  *)
(* table admins holds the user ids of the dynamic administrators; ADMIN_IDS *)
(* is its in-memory copy, reloaded after every write.                       *)

\* The values ADMIN_IDS can hold after load_admin_ids: the list is cleared,
\* then filled from SELECT user_id FROM admins; an exception of the read is
\* caught and leaves it empty.
load_admin_ids(t) == {t, {}}

\* INSERT INTO admins ... ON CONFLICT (user_id) DO NOTHING
add_admin_to_db(t, user_id) == t \cup {user_id}

\* DELETE FROM admins WHERE user_id = %s
delete_admin_from_db(t, user_id) == t \ {user_id}

\* A command whose effect is a write of the admins table and the reload
\* of ADMIN_IDS
WriteAdmins(t, kind) ==
    /\ admins' = t
    /\ ADMIN_IDS' \in load_admin_ids(t)
    /\ reply' = Reply(kind)
    /\ UNCHANGED <<winnerVars, raffleVars, BOT_ACTIVE, pureVars>>

\* /add_admin <id>; args is message.get_args().split()
add_admin_cmd(uid, args) ==
    IF ~is_admin(uid) THEN Ignored
    ELSE IF args = <<>> \/ ~isdigit(args[1]) THEN OnlyReply("add_admin_usage")
    ELSE IF int(args[1]).error THEN Raise
    ELSE WriteAdmins(add_admin_to_db(admins, int(args[1]).value), "admin_added")

\* A faulty del_admin_cmd: the target is never compared with the sender
del_admin_cmd_no_self_check(uid, args) ==
    IF ~is_admin(uid) THEN Ignored
    ELSE IF args = <<>> \/ ~isdigit(args[1]) THEN OnlyReply("del_admin_usage")
    ELSE IF int(args[1]).error THEN Raise
    ELSE WriteAdmins(delete_admin_from_db(admins, int(args[1]).value), "admin_deleted")

\* /del_admin <id>
del_admin_cmd(uid, args) ==
    IF ~is_admin(uid) THEN Ignored
    ELSE IF args = <<>> \/ ~isdigit(args[1]) THEN OnlyReply("del_admin_usage")
    ELSE IF int(args[1]).error THEN Raise
    ELSE IF int(args[1]).value = uid THEN OnlyReply("cannot_delete_self")
    ELSE WriteAdmins(delete_admin_from_db(admins, int(args[1]).value), "admin_deleted")

\* /list_admins
list_admins_cmd(uid) ==
    IF ~is_admin(uid) THEN Ignored
    ELSE IF admins = {} THEN OnlyReply("no_admins")
    ELSE OnlyReply("admin_list")

\* A command that sets BOT_ACTIVE
Switch(active, kind) ==
    /\ BOT_ACTIVE' = active
    /\ reply' = Reply(kind)
    /\ UNCHANGED <<winnerVars, raffleVars, ADMIN_IDS, admins, pureVars>>

bot_off_cmd(uid) == IF ~is_admin(uid) THEN Ignored ELSE Switch(FALSE, "bot_off")

bot_on_cmd(uid) == IF ~is_admin(uid) THEN Ignored ELSE Switch(TRUE, "bot_on")

bot_status_cmd(uid) ==
    IF ~is_admin(uid) THEN Ignored
    ELSE IF BOT_ACTIVE THEN OnlyReply("status_on") ELSE OnlyReply("status_off")

start_cmd(uid) == IF is_user_blocked(uid) THEN Ignored ELSE OnlyReply("started")

\* /help: the user help in a group chat, the admin help for an admin in a
\* private chat, the user help otherwise
help_cmd(uid, chat_id) ==
    IF ChatType(chat_id) = "group" THEN OnlyReply("user_help")
    ELSE IF ChatType(chat_id) = "private" /\ is_admin(uid) THEN OnlyReply("admin_help")
    ELSE OnlyReply("user_help")

form_cmd(uid) == IF is_user_blocked(uid) THEN Ignored ELSE OnlyReply("form_link")

\* /list_winners
list_cmd(uid) ==
    IF is_user_blocked(uid) THEN Ignored
    ELSE IF winners = {} THEN OnlyReply("no_winners")
    ELSE OnlyReply("winner_list")

-----------------------------------------------------------------------------
(* The bot with one static administrator, two other users who can be made   *)
(* administrators, and a winners table that holds one record of the handle  *)
(* of user 3 when the program starts.                                       *)

AdminUsers == {1, 3, 4}

\* The group chat the users write in
AdminChats == {-1}

\* The arguments sent with /add_admin and /del_admin: none, a word, a digit
\* that is not decimal, and the id of a user in ASCII or Arabic-Indic digits
AdminArgs ==
    {<<>>, <<<<"x">>>>, <<<<SuperscriptTwo>>>>, <<<<ArabicIndicOne>>>>}
        \cup {<<Numeral(k)>> : k \in AdminUsers}

\* A phone with a decimal digit outside ASCII in its last position
IndicPhone == ReplaceAt(ValidPhone, Len(ValidPhone), ArabicIndicOne)

\* The texts the users send: a well-formed phone, a word, and the phone
\* with the digit outside ASCII
AdminTexts == PhoneTexts \cup {IndicPhone}

InitAdmin ==
    /\ winners = {WinnerRow(<<"p">>, <<"@", "b">>, None)}
    /\ admin_states = EmptyDict
    /\ pending_phone_users = EmptyDict
    /\ lotteries = {}
    /\ lottery_participants = {}
    /\ admin_config = {}
    /\ tasks = EmptyBag
    /\ admins \in {{}, {3}}
    /\ ADMIN_IDS \in load_admin_ids(admins)
    /\ BOT_ACTIVE = TRUE
    /\ reply = NoReply
    /\ inp = <<>>
    /\ out = None

NextAdmin ==
    \/ \E uid \in AdminUsers : \E args \in AdminArgs : add_admin_cmd(uid, args)
    \/ \E uid \in AdminUsers : \E args \in AdminArgs : del_admin_cmd(uid, args)
    \/ \E uid \in AdminUsers : list_admins_cmd(uid)
    \/ \E uid \in AdminUsers : bot_off_cmd(uid)
    \/ \E uid \in AdminUsers : bot_on_cmd(uid)
    \/ \E uid \in AdminUsers : bot_status_cmd(uid)
    \/ \E uid \in AdminUsers : start_cmd(uid)
    \/ \E uid \in AdminUsers : \E chat_id \in {uid} \cup AdminChats : help_cmd(uid, chat_id)
    \/ \E uid \in AdminUsers : form_cmd(uid)
    \/ \E uid \in AdminUsers : list_cmd(uid)
    \/ \E uid \in AdminUsers : submit_cmd(uid)
    \/ \E uid \in AdminUsers : \E chat_id \in AdminChats : lottery_join_cmd(uid, chat_id)
    \/ \E uid \in AdminUsers : \E raw \in AdminTexts : text_handler(uid, raw)

SpecAdmin == InitAdmin /\ [][NextAdmin]_vars

\* C13: a /del_admin whose argument is the id of its sender leaves the
\* admins table and ADMIN_IDS unchanged, and an admin who sends it is told
\* that the own id cannot be deleted; no /del_admin takes its sender out of
\* the admins table.
C13_NoSelfRemoval ==
    [][\A uid \in AdminUsers : \A args \in AdminArgs :
          del_admin_cmd(uid, args) =>
              /\ (/\ args # <<>> /\ isdigit(args[1])
                  /\ ~int(args[1]).error /\ int(args[1]).value = uid) =>
                     /\ admins' = admins
                     /\ ADMIN_IDS' = ADMIN_IDS
                     /\ is_admin(uid) => reply'.kind = "cannot_delete_self"
              /\ uid \in admins => uid \in admins']_vars

\* C13 witness: a /del_admin was refused for naming its sender while both
\* users who can be made administrators are in the admins table.
C13_Witness ==
    /\ reply.kind = "cannot_delete_self"
    /\ admins = {3, 4}
    /\ ADMIN_IDS = {3, 4}

\* C14: while BOT_ACTIVE is false, a message of a user who is not an admin
\* (/start, /help, /form, /list_winners, /submit_winner, /join or a text)
\* gets no reply and changes no store, no conversation state, no
\* pending-phone marker and no flag.
C14_DisabledSilent ==
    [][\A uid \in AdminUsers :
          (/\ ~BOT_ACTIVE
           /\ ~is_admin(uid)
           /\ \/ start_cmd(uid)
              \/ \E chat_id \in {uid} \cup AdminChats : help_cmd(uid, chat_id)
              \/ form_cmd(uid)
              \/ list_cmd(uid)
              \/ submit_cmd(uid)
              \/ \E chat_id \in AdminChats : lottery_join_cmd(uid, chat_id)
              \/ \E raw \in AdminTexts : text_handler(uid, raw)) =>
              /\ reply' = NoReply
              /\ UNCHANGED <<winnerVars, raffleVars, adminVars>>]_vars

\* The required-group list of the raffle row of a chat
GroupsOf(chat_id) ==
    RequiredGroupList((CHOOSE r \in lotteries : r.chat_id = chat_id).required_groups)

\* C15: a row enters the participant table only in a step of a /join of
\* that user in that chat, the user having a username, either at once when
\* the ACTIVE raffle requires no group or when the lookup of the last
\* required group returned true; a /join handler waits for lookups only if
\* it was received while the chat had an ACTIVE raffle from a user with a
\* username, then with every required group of that raffle still to check,
\* and it moves to the next group only after a lookup that returned true; a
\* lookup that returned false (a failed lookup included) ends the handler
\* with the not-qualified reply and no change of the table; a /join in a
\* chat with no ACTIVE raffle or of a user with no username changes nothing.
C15_JoinOnly ==
    [][/\ \A row \in lottery_participants' \ lottery_participants :
             /\ Username(row.user_id) # None
             /\ row.username = Username(row.user_id)[1]
             /\ \/ /\ Active(row.chat_id)
                   /\ GroupsOf(row.chat_id) = <<>>
                   /\ SendJoin(row.user_id, row.chat_id)
                \/ \E task \in Pending("lottery_join_cmd") :
                      /\ task.uid = row.user_id
                      /\ task.chat_id = row.chat_id
                      /\ Tail(task.groups) = <<>>
                      /\ lottery_join_resume(task, TRUE)
       /\ \A task \in Pending("lottery_join_cmd")' :
             CopiesIn(task, tasks') > CopiesIn(task, tasks) =>
                 \/ /\ Active(task.chat_id)
                    /\ Username(task.uid) # None
                    /\ task.groups = GroupsOf(task.chat_id)
                    /\ SendJoin(task.uid, task.chat_id)
                 \/ \E old \in Pending("lottery_join_cmd") :
                       /\ old.uid = task.uid
                       /\ old.chat_id = task.chat_id
                       /\ Tail(old.groups) = task.groups
                       /\ lottery_join_resume(old, TRUE)
       /\ \A task \in Pending("lottery_join_cmd") :
             lottery_join_resume(task, FALSE) =>
                 /\ lottery_participants' = lottery_participants
                 /\ reply'.kind = "not_qualified"
                 /\ tasks' = Resume(task)
       /\ \A chat_id \in RaffleChats : \A uid \in Senders(chat_id) :
             (/\ ~Active(chat_id) \/ Username(uid) = None
              /\ SendJoin(uid, chat_id)) =>
                 /\ lottery_participants' = lottery_participants
                 /\ tasks' = tasks
                 /\ reply'.kind \in {"none", "no_active_lottery", "need_username"}]_vars

\* C15 witness: the user who is not an admin was told to have joined and is
\* a participant of the ACTIVE raffle of the chat.
C15_Witness ==
    /\ reply.kind = "joined"
    /\ \E row \in lottery_participants :
          /\ row.user_id = 3
          /\ Active(row.chat_id)
          /\ GroupsOf(row.chat_id) # <<>>

-----------------------------------------------------------------------------
(* The raffle on a store written before the setting became global: the     *)
(* table admin_config holds the row of one administrator and no global row. *)

PerAdminSettings ==
    {[user_id |-> 1, required_groups |-> <<"g", ",", " ", "h">>]}

InitPerAdmin ==
    /\ winners = {}
    /\ admin_states = EmptyDict
    /\ pending_phone_users = EmptyDict
    /\ lotteries = {}
    /\ lottery_participants = {}
    /\ admin_config = PerAdminSettings
    /\ tasks = EmptyBag
    /\ ADMIN_IDS = {}
    /\ admins = {}
    /\ BOT_ACTIVE = TRUE
    /\ reply = NoReply
    /\ inp = <<>>
    /\ out = None

SpecPerAdmin == InitPerAdmin /\ [][NextRaffle]_vars

\* The global required-group setting is unset or empty
GroupsUnset ==
    ~\E r \in admin_config :
        r.user_id = GLOBAL_CONFIG_USER_ID /\ r.required_groups # <<>>

C17_MalformedPhone ==
    [][\A uid \in AdminUsers : \A raw \in AdminTexts :
          (/\ uid \in DOMAIN pending_phone_users
           /\ ~is_user_blocked(uid)
           /\ ~PhoneForm(Strip(raw))
           /\ text_handler(uid, raw)) =>
              /\ reply'.kind = "phone_format_error"
              /\ pending_phone_users' = pending_phone_users
              /\ winners' = winners]_vars

-----------------------------------------------------------------------------
(* The product-name step with a message of white space only: one admin in   *)
(* the four flows that ask for a product name.                              *)

BlankUsers == {1}

\* The texts the admin sends: a blank, a word (a product name or a handle)
\* and the end of the input
BlankTexts == { <<" ">>, <<"p">>, End }

ProductFlows ==
    {"add_winner", "delete_winner", "delete_product", "clear_phones_product"}

NextBlank ==
    \/ \E uid \in BlankUsers : add_winner_cmd(uid)
    \/ \E uid \in BlankUsers : delete_winner_cmd(uid)
    \/ \E uid \in BlankUsers : delete_product_cmd(uid)
    \/ \E uid \in BlankUsers : clear_phones_product_cmd(uid)
    \/ \E uid \in BlankUsers : \E raw \in BlankTexts : SendText(uid, raw)

SpecBlank == Init /\ [][NextBlank]_vars

\* C18: in the flows add-winner, delete-winner, delete-product and
\* clear-phones-for-product, a text that is empty once stripped, sent at the
\* step product_name, is answered with a reply, and the conversation state
\* (the step included) and the winners table are unchanged.
C18_EmptyProduct ==
    [][\A uid \in BlankUsers : \A raw \in BlankTexts : \A type \in ProductFlows :
          (/\ InFlow(uid, type, "product_name")
           /\ Strip(raw) = <<>>
           /\ SendText(uid, raw)) =>
              /\ admin_states' = admin_states
              /\ winners' = winners
              /\ reply'.kind \notin {"none", "exception"}]_vars

-----------------------------------------------------------------------------
(* The required-group setting: two admins in the /set_groups flow, the      *)
(* /lottery that reads the setting, and two commands outside the flow.      *)

GroupAdmins == {1, 2}

\* Bound of the group lines an admin accumulates in one run of the flow
MaxGroups == 2

\* The texts the admins send: a group reference, /end and a slash text no
\* command handler takes
GroupTexts == { <<"g">>, End, <<"/", "x">> }

\* A text message in the flows of the setting (the accumulated list stays
\* within MaxGroups lines)
SendGroups(uid, raw) ==
    /\ text_handler(uid, raw)
    /\ \A u \in DOMAIN admin_states' : Len(admin_states'[u].groups) <= MaxGroups

NextGroups ==
    \/ \E uid \in GroupAdmins : \E chat_id \in {uid} \cup AdminChats :
          set_groups_cmd(uid, chat_id)
    \/ \E uid \in GroupAdmins : cancel_cmd(uid)
    \/ \E uid \in GroupAdmins : list_cmd(uid)
    \/ \E uid \in GroupAdmins : bot_status_cmd(uid)
    \/ \E uid \in GroupAdmins : \E raw \in GroupTexts : SendGroups(uid, raw)
    \/ \E uid \in GroupAdmins : \E chat_id \in AdminChats : SendLottery(uid, chat_id)
    \/ \E task \in Pending("lottery_start_cmd") : lottery_start_resume(task)

SpecGroups == Init /\ [][NextGroups]_vars

\* The required_groups value of the global row of admin_config
GlobalGroups(t) ==
    (CHOOSE r \in t : r.user_id = GLOBAL_CONFIG_USER_ID).required_groups

\* C21: when the /set_groups flow commits, on /end or on another text that
\* starts with a slash, the table admin_config holds the single global row
\* whose value is the lines the admin entered in this run of the flow, in
\* order and joined by commas, in place of the previous value; the
\* terminating text is not part of it, and the flow of the admin is over.
\* A /lottery that starts a raffle records the global value, whoever the
\* admin is.
C21_CommitGroups ==
    [][/\ \A uid \in GroupAdmins : \A raw \in GroupTexts :
             (/\ InFlow(uid, "set_groups", "groups_input")
              /\ admin_states[uid].groups # <<>>
              /\ StartsWith(raw, "/")
              /\ SendGroups(uid, raw)) =>
                 /\ admin_config' =
                       {[user_id |-> GLOBAL_CONFIG_USER_ID,
                         required_groups |-> JoinComma(admin_states[uid].groups)]}
                 /\ uid \notin DOMAIN admin_states'
       /\ \A r \in lotteries' :
             (r.state = "ACTIVE" /\ ~Active(r.chat_id)) =>
                 r.required_groups = GlobalGroups(admin_config)]_vars

\* C23: in every reachable state, whatever the interleaving of the /join
\* and /lottery_end handlers, a chat with no ACTIVE raffle has no row in the
\* participant table.
C23_NoParticipantsUnlessActive ==
    \A chat_id \in RaffleChats : ~Active(chat_id) => ParticipantsOf(chat_id) = {}

\* C24: after every /add_admin or /del_admin that wrote the admins table,
\* ADMIN_IDS equals the table, so that is_admin(u) holds exactly for the
\* users of ENV_ADMIN_IDS and of the table, also when the read of the
\* reload failed.
C24_CacheEqualsRegistry ==
    [][\A uid \in AdminUsers : \A args \in AdminArgs :
          (/\ add_admin_cmd(uid, args) \/ del_admin_cmd(uid, args)
           /\ reply'.kind \in {"admin_added", "admin_deleted"}) =>
              /\ ADMIN_IDS' = admins'
              /\ \A u \in AdminUsers :
                    is_admin(u)' <=> (u \in ENV_ADMIN_IDS \/ u \in admins')]_vars

\* C25: a /cancel of an admin removes the conversation state of that admin
\* and replies; the state of every other user, the pending-phone table,
\* BOT_ACTIVE, the admin registry and every table are unchanged, and with
\* no conversation state of the sender nothing but the reply changes.
C25_CancelFrame ==
    [][\A uid \in GroupAdmins :
          (is_admin(uid) /\ cancel_cmd(uid)) =>
              /\ admin_states' = Pop(admin_states, uid)
              /\ uid \notin DOMAIN admin_states => admin_states' = admin_states
              /\ reply'.kind =
                    IF uid \in DOMAIN admin_states THEN "cancelled"
                    ELSE "nothing_to_cancel"
              /\ UNCHANGED <<winners, pending_phone_users, raffleVars, adminVars>>]_vars

\* C25 witness: a flow was cancelled while the other admin is still in a
\* flow with a line entered, a setting is stored and a raffle exists.
C25_Witness ==
    /\ reply.kind = "cancelled"
    /\ \E u \in DOMAIN admin_states : admin_states[u].groups # <<>>
    /\ admin_config # {}
    /\ lotteries # {}

\* C26: a command outside the flow (/list_winners, /bot_status) sent by an
\* admin who has a conversation state discards that state: the admin has
\* none afterwards, so that the next text of the admin is no step of a flow.
C26_CommandDiscardsState ==
    [][\A uid \in GroupAdmins :
          (/\ is_admin(uid)
           /\ uid \in DOMAIN admin_states
           /\ list_cmd(uid) \/ bot_status_cmd(uid)) =>
              uid \notin DOMAIN admin_states']_vars

-----------------------------------------------------------------------------
(* An admin of the registry who is removed in the middle of a flow: the     *)
(* static admin 1 adds and removes user 3, both use the add-winner and the  *)
(* delete-product flows.                                                    *)

RevokeUsers == {1, 3}

\* /add_admin 3 and /del_admin 3
RevokeArgs == {<<Numeral(3)>>}

\* The texts sent in the flows: two words (product names or handles), /end
RevokeTexts == { <<"p">>, <<"a">>, End }

NextRevoke ==
    \/ \E uid \in RevokeUsers : \E args \in RevokeArgs : add_admin_cmd(uid, args)
    \/ \E uid \in RevokeUsers : \E args \in RevokeArgs : del_admin_cmd(uid, args)
    \/ \E uid \in RevokeUsers : add_winner_cmd(uid)
    \/ \E uid \in RevokeUsers : delete_product_cmd(uid)
    \/ \E uid \in RevokeUsers : \E raw \in RevokeTexts : SendText(uid, raw)

SpecRevoke == InitAdmin /\ [][NextRevoke]_vars

\* C29: the winners table and the required-group setting change only in a
\* step of a message whose sender is an admin (of ENV_ADMIN_IDS or of
\* ADMIN_IDS) when the message is handled; a text of a user who is not an
\* admin, and who is not awaited for a phone, changes neither.
C29_AdminOnlyWrites ==
    [][\A uid \in RevokeUsers : \A raw \in RevokeTexts :
          (/\ ~is_admin(uid)
           /\ uid \notin DOMAIN pending_phone_users
           /\ SendText(uid, raw)) =>
              /\ winners' = winners
              /\ admin_config' = admin_config]_vars

\* C30: a record gets a phone it did not have only in the step of a text of
\* the phone form 01D-NNN(N)-NNNN sent by a user whose pending-phone marker
\* names the handle of the record; a marker is set or changed only by the
\* /submit_winner of its user, to a handle that is the username of that
\* user up to letter case.
C30_PhoneWriters ==
    [][/\ \A r \in winners' :
             (/\ r.phone_number # None
              /\ ~\E o \in winners :
                     o.handle = r.handle /\ o.phone_number = r.phone_number) =>
                 \E uid \in AdminUsers : \E raw \in AdminTexts :
                     /\ uid \in DOMAIN pending_phone_users
                     /\ SameHandle(pending_phone_users[uid], r.handle)
                     /\ PhoneForm(Strip(raw))
                     /\ r.phone_number = Some(Strip(raw))
                     /\ text_handler(uid, raw)
       /\ \A uid \in DOMAIN pending_phone_users' :
             (uid \in DOMAIN pending_phone_users =>
                  pending_phone_users'[uid] # pending_phone_users[uid]) =>
                 /\ OwnHandle(uid, pending_phone_users'[uid])
                 /\ submit_cmd(uid)]_vars


-----------------------------------------------------------------------------
(* The setting is changed while a raffle runs: an admin replaces the        *)
(* required groups in the /set_groups flow, raffles are started and ended   *)
(* in one group chat, an ordinary user joins.                               *)

CaptureAdmins == {1}
CaptureJoiners == {3}
CaptureChats == {-1}

\* The texts of the flow: two group references and /end
CaptureTexts == { <<"g">>, <<"h">>, End }

NextCapture ==
    \/ \E uid \in CaptureAdmins : set_groups_cmd(uid, uid)
    \/ \E uid \in CaptureAdmins : \E raw \in CaptureTexts : SendGroups(uid, raw)
    \/ \E uid \in CaptureAdmins : \E chat_id \in CaptureChats : SendLottery(uid, chat_id)
    \/ \E task \in Pending("lottery_start_cmd") : lottery_start_resume(task)
    \/ \E uid \in CaptureAdmins : \E chat_id \in CaptureChats : SendLotteryEnd(uid, chat_id)
    \/ \E task \in Pending("lottery_end_cmd") : lottery_end_resume(task)
    \/ \E uid \in CaptureJoiners : \E chat_id \in CaptureChats : SendJoin(uid, chat_id)
    \/ \E task \in Pending("lottery_join_cmd") : \E ok \in BOOLEAN :
          lottery_join_resume(task, ok)

SpecCapture == Init /\ [][NextCapture]_vars

\* C31: a text of the /set_groups flow, the committing one included, leaves
\* the table lotteries unchanged; in every step a raffle that is ACTIVE
\* before and after keeps its required_groups; and a /join received while
\* the chat has an ACTIVE raffle checks the groups of that raffle's row, all
\* of them and in their order, whatever the setting holds at that moment.
C31_ListCaptured ==
    [][/\ \A uid \in CaptureAdmins : \A raw \in CaptureTexts :
             SendGroups(uid, raw) => lotteries' = lotteries
       /\ \A r \in lotteries : \A q \in lotteries' :
             (r.chat_id = q.chat_id /\ r.state = "ACTIVE" /\ q.state = "ACTIVE") =>
                 q.required_groups = r.required_groups
       /\ \A uid \in CaptureJoiners : \A chat_id \in CaptureChats :
             (Active(chat_id) /\ SendJoin(uid, chat_id)) =>
                 \E task \in Pending("lottery_join_cmd")' :
                     /\ tasks' = Suspend(task)
                     /\ task.uid = uid
                     /\ task.chat_id = chat_id
                     /\ task.groups = GroupsOf(chat_id)]_vars

\* C31 witness: a /join is waiting for the lookups of the groups of the
\* ACTIVE raffle while the setting, committed after the raffle was started,
\* holds another list.
C31_Witness ==
    \E task \in Pending("lottery_join_cmd") :
        /\ Active(task.chat_id)
        /\ task.groups = GroupsOf(task.chat_id)
        /\ admin_config # {}
        /\ task.groups # RequiredGroupList(GlobalGroups(admin_config))


\* C32: whatever the interleaving of the /join and /lottery_end handlers, a
\* user told to have joined the raffle of a chat is in the participant set
\* the /lottery_end of that raffle reads: the rows a /lottery_end that found
\* no participant deletes after its reply are none, and the reply joined is
\* given only for a row added while the raffle is ACTIVE and no /lottery_end
\* of the chat has read the participants.
C32_AcknowledgedInPool ==
    [][/\ \A task \in Pending("lottery_end_cmd") :
             lottery_end_resume(task) => ParticipantsOf(task.chat_id) = {}
       /\ \A task \in Pending("lottery_join_cmd") :
             (lottery_join_resume(task, TRUE) /\ reply'.kind = "joined") =>
                 /\ Active(task.chat_id)
                 /\ \A e \in Pending("lottery_end_cmd") :
                       e.chat_id # task.chat_id]_vars

=============================================================================
